---------------------------- MODULE Spec2Model ----------------------------
(***************************************************************************)
(* A model of wavesurf: the Expression tree, simplify, differentiate and   *)
(* integrate, the IntegrationState cycle guard, the rule table, the parser *)
(* and the demo driver.                                                    *)
(*                                                                         *)
(* An Expression is a tuple whose first element is the variant's name:     *)
(*   <<"Constant", value>>, <<"Variable", name>>, <<"Add", left, right>>,  *)
(*   <<"Sin", expr>>, ...                                                  *)
(* A Constant's value is an f64, modelled as a triple <<n, d, u>>:         *)
(*   d > 0        the finite value (n/d) * u, n/d in lowest terms, where   *)
(*                the unit u is "1", "e" (std::f64::consts::E), "pi"       *)
(*                (std::f64::consts::PI), or "?" (a finite value the model *)
(*                does not track exactly: an irrational power, a mixed     *)
(*                sum, or a magnitude beyond MaxExact);                    *)
(*   <<1,0,"1">>  +infinity,  <<-1,0,"1">>  -infinity,  <<0,0,"1">>  NaN.  *)
(* Rounding is not modelled: finite arithmetic is exact.                   *)
(***************************************************************************)
EXTENDS Integers, Sequences, FiniteSets, TLC

\* ------------------------------------------------------------------ bounds

\* Constant leaves of the input expressions are the integers -1 .. MaxConst.
MaxConst == 2

\* Largest numerator or denominator tracked exactly; beyond it a value is "?".
MaxExact == 30000

\* Number of operations applied to one input expression.
MaxOps == 3

\* The longest string given to the parser, of those enumerated in full.
MaxText == 5

\* The longest vector of test expressions given to main.
MaxTests == 2

\* The largest max_depth an IntegrationState is made with.
MaxDepth == 2

\* The most calls a client that checks before it pushes makes on a state.
MaxCalls == 4

\* ------------------------------------------------------------------ f64

Abs(n) == IF n < 0 THEN -n ELSE n

Sgn(n) == IF n < 0 THEN -1 ELSE IF n > 0 THEN 1 ELSE 0

RECURSIVE GCD(_, _)
GCD(a, b) == IF b = 0 THEN a ELSE GCD(b, a % b)

NaN == <<0, 0, "1">>

PInf == <<1, 0, "1">>

NInf == <<-1, 0, "1">>

Zero == <<0, 1, "1">>

One == <<1, 1, "1">>

\* A finite value the model does not track, with the sign s.
Untracked(s) == <<IF s < 0 THEN -1 ELSE 1, 1, "?">>

\* The f64 (n/d) * u for integers n and d # 0.
Mk(n, d, u) ==
    IF n = 0 THEN Zero
    ELSE IF u = "?" THEN Untracked(Sgn(n) * Sgn(d))
    ELSE LET g == GCD(Abs(n), Abs(d))
             nn == (Sgn(d) * n) \div g
             dd == Abs(d) \div g
         IN  IF Abs(nn) > MaxExact \/ dd > MaxExact
             THEN Untracked(nn) ELSE <<nn, dd, u>>

FInt(n) == Mk(n, 1, "1")

IsNaN(a) == a[2] = 0 /\ a[1] = 0

IsInf(a) == a[2] = 0 /\ a[1] # 0

IsFinite(a) == a[2] # 0

IsZero(a) == a[2] # 0 /\ a[1] = 0

\* f64 == : NaN equals nothing, itself included.
FEq(a, b) == a = b /\ ~IsNaN(a)

\* f64 > 0.0
FPositive(a) == a[1] > 0

FNeg(a) == <<-a[1], a[2], a[3]>>

\* f64 +
FAdd(a, b) ==
    IF IsNaN(a) \/ IsNaN(b) THEN NaN
    ELSE IF IsInf(a) /\ IsInf(b) THEN (IF a = b THEN a ELSE NaN)
    ELSE IF IsInf(a) THEN a
    ELSE IF IsInf(b) THEN b
    ELSE IF IsZero(a) THEN b
    ELSE IF IsZero(b) THEN a
    ELSE IF a[3] = b[3] /\ a[3] # "?"
         THEN Mk(a[1] * b[2] + b[1] * a[2], a[2] * b[2], a[3])
    ELSE IF Sgn(a[1]) = Sgn(b[1]) THEN Untracked(a[1])
    ELSE Untracked(1)

\* f64 -
FSub(a, b) == FAdd(a, FNeg(b))

\* f64 *
FMul(a, b) ==
    IF IsNaN(a) \/ IsNaN(b) THEN NaN
    ELSE IF IsInf(a) \/ IsInf(b)
         THEN (IF IsZero(a) \/ IsZero(b) THEN NaN
               ELSE IF Sgn(a[1]) = Sgn(b[1]) THEN PInf ELSE NInf)
    ELSE IF IsZero(a) \/ IsZero(b) THEN Zero
    ELSE IF a[3] = "1" THEN Mk(a[1] * b[1], a[2] * b[2], b[3])
    ELSE IF b[3] = "1" THEN Mk(a[1] * b[1], a[2] * b[2], a[3])
    ELSE Untracked(Sgn(a[1]) * Sgn(b[1]))

\* f64 /
FDiv(a, b) ==
    IF IsNaN(a) \/ IsNaN(b) THEN NaN
    ELSE IF IsInf(a)
         THEN (IF IsInf(b) THEN NaN
               ELSE IF Sgn(a[1]) * (IF b[1] < 0 THEN -1 ELSE 1) > 0
                    THEN PInf ELSE NInf)
    ELSE IF IsInf(b) THEN Zero
    ELSE IF IsZero(b)
         THEN (IF IsZero(a) THEN NaN ELSE IF a[1] > 0 THEN PInf ELSE NInf)
    ELSE IF IsZero(a) THEN Zero
    ELSE IF b[3] = "1" THEN Mk(a[1] * b[2], a[2] * b[1], a[3])
    ELSE IF a[3] = b[3] /\ a[3] # "?" THEN Mk(a[1] * b[2], a[2] * b[1], "1")
    ELSE Untracked(Sgn(a[1]) * Sgn(b[1]))

\* b^k for naturals b, k; -1 when the result exceeds MaxExact.
RECURSIVE IPow(_, _)
IPow(b, k) ==
    IF k = 0 \/ b = 1 THEN 1
    ELSE IF b = 0 THEN 0
    ELSE LET p == IPow(b, k - 1)
         IN  IF p < 0 \/ p * b > MaxExact THEN -1 ELSE p * b

IsInteger(a) == a[2] = 1 /\ a[3] = "1"

IsOdd(k) == k % 2 = 1

\* c^k for a finite c with unit "1" and an integer k # 0.
RatPow(c, k) ==
    LET pn == IPow(Abs(c[1]), Abs(k))
        pd == IPow(c[2], Abs(k))
        s  == IF c[1] < 0 /\ IsOdd(Abs(k)) THEN -1 ELSE 1
    IN  IF c[1] = 0 THEN (IF k > 0 THEN Zero ELSE PInf)
        ELSE IF pn < 0 \/ pd < 0 THEN Untracked(s)
        ELSE IF k > 0 THEN Mk(s * pn, pd, "1")
        ELSE Mk(s * pd, pn, "1")

\* f64::powf
FPow(c, n) ==
    IF IsZero(n) \/ c = One THEN One
    ELSE IF IsNaN(c) \/ IsNaN(n) THEN NaN
    ELSE IF IsInf(n)
         THEN (IF c = <<-1, 1, "1">> THEN One
               ELSE IF IsInf(c) \/ c[3] = "1"
                    THEN (IF (IsInf(c) \/ Abs(c[1]) > c[2]) = (n = PInf)
                          THEN PInf ELSE Zero)
               ELSE Untracked(1))
    ELSE IF IsInf(c)
         THEN (IF n[1] < 0 THEN Zero
               ELSE IF c = NInf /\ IsInteger(n) /\ IsOdd(n[1]) THEN NInf
               ELSE PInf)
    ELSE IF IsInteger(n)
         THEN (IF c[3] = "1" THEN RatPow(c, n[1])
               ELSE Untracked(IF c[1] < 0 /\ IsOdd(Abs(n[1])) THEN -1 ELSE 1))
    ELSE IF IsZero(c) THEN (IF n[1] > 0 THEN Zero ELSE PInf)
    ELSE IF c[1] < 0 THEN NaN
    ELSE Untracked(1)

\* The f64 0.99999999999: unequal to 1.0 and within 1e-10 of it.
Near == <<1, 1, "near">>

\* std::f64::consts
E == <<1, 1, "e">>

PI == <<1, 1, "pi">>

\* ----------------------------------------------------------- Expression

constant(value) == <<"Constant", value>>

variable(name) == <<"Variable", name>>

add(left, right) == <<"Add", left, right>>

subtract(left, right) == <<"Subtract", left, right>>

multiply(left, right) == <<"Multiply", left, right>>

divide(left, right) == <<"Divide", left, right>>

power(base, exponent) == <<"Power", base, exponent>>

root(base, n) == <<"Root", base, n>>

ln(expr) == <<"Ln", expr>>

sin(expr) == <<"Sin", expr>>

cos(expr) == <<"Cos", expr>>

tan(expr) == <<"Tan", expr>>

arcsin(expr) == <<"Arcsin", expr>>

arccos(expr) == <<"Arccos", expr>>

arctan(expr) == <<"Arctan", expr>>

exp(expr) == <<"Exp", expr>>

log(base, expr) == <<"Log", base, expr>>

sinh(expr) == <<"Sinh", expr>>

cosh(expr) == <<"Cosh", expr>>

tanh(expr) == <<"Tanh", expr>>

\* The variants of enum Expression, by arity.
LeafTags == {"Constant", "Variable"}

BinaryTags == {"Add", "Subtract", "Multiply", "Divide", "Power", "Root", "Log"}

UnaryTags == {"Sin", "Cos", "Tan", "Arcsin", "Arccos", "Arctan",
              "Exp", "Ln", "Sinh", "Cosh", "Tanh"}

Tag(e) == e[1]

IsConstant(e) == e[1] = "Constant"

IsVariable(e) == e[1] = "Variable"

\* matches Expression::Constant(c) if *c == k
IsConstEq(e, k) == IsConstant(e) /\ FEq(e[2], k)

\* #[derive(PartialEq)] on Expression: structural, with f64 == at the leaves.
RECURSIVE ExprEq(_, _)
ExprEq(a, b) ==
    IF a[1] # b[1] THEN FALSE
    ELSE IF a[1] = "Constant" THEN FEq(a[2], b[2])
    ELSE IF a[1] = "Variable" THEN a[2] = b[2]
    ELSE IF a[1] \in UnaryTags THEN ExprEq(a[2], b[2])
    ELSE ExprEq(a[2], b[2]) /\ ExprEq(a[3], b[3])

\* Every node of e, e included.
RECURSIVE Nodes(_)
Nodes(e) ==
    IF e[1] \in LeafTags THEN {e}
    ELSE IF e[1] \in UnaryTags THEN {e} \cup Nodes(e[2])
    ELSE {e} \cup Nodes(e[2]) \cup Nodes(e[3])

\* e is a finite tree of the variants of enum Expression.
RECURSIVE IsExpression(_)
IsExpression(e) ==
    /\ Len(e) \in {2, 3}
    /\ \/ e[1] = "Constant" /\ Len(e) = 2 /\ Len(e[2]) = 3
       \/ e[1] = "Variable" /\ Len(e) = 2
       \/ e[1] \in UnaryTags /\ Len(e) = 2 /\ IsExpression(e[2])
       \/ e[1] \in BinaryTags /\ Len(e) = 3 /\ IsExpression(e[2]) /\ IsExpression(e[3])

\* ------------------------------------------------------------- simplify
\* Each helper takes the already simplified children, as the match arms do.

\* simplifyAdd without the rule x + 0 = x.
simplifyAdd_leftOnly(left, right) ==
    IF IsConstEq(left, Zero) THEN right
    ELSE IF IsConstant(left) /\ IsConstant(right)
         THEN constant(FAdd(left[2], right[2]))
    ELSE IF IsVariable(left) /\ IsVariable(right) /\ left[2] = right[2]
         THEN multiply(constant(FInt(2)), variable(left[2]))
    ELSE add(left, right)

simplifyAdd(left, right) ==
    IF IsConstEq(left, Zero) THEN right
    ELSE IF IsConstEq(right, Zero) THEN left
    ELSE IF IsConstant(left) /\ IsConstant(right)
         THEN constant(FAdd(left[2], right[2]))
    ELSE IF IsVariable(left) /\ IsVariable(right) /\ left[2] = right[2]
         THEN multiply(constant(FInt(2)), variable(left[2]))
    ELSE add(left, right)

simplifySubtract(left, right) ==
    IF IsConstEq(right, Zero) THEN left
    ELSE IF IsConstant(left) /\ IsConstant(right)
         THEN constant(FSub(left[2], right[2]))
    ELSE IF IsVariable(left) /\ IsVariable(right) /\ left[2] = right[2]
         THEN constant(Zero)
    ELSE subtract(left, right)

\* simplifyMultiply with the rule 0 * x = 0 for a left 0 alone.
simplifyMultiply_leftZero(left, right) ==
    IF IsConstEq(left, Zero) THEN constant(Zero)
    ELSE IF IsConstEq(left, One) THEN right
    ELSE IF IsConstEq(right, One) THEN left
    ELSE IF IsConstant(left) /\ IsConstant(right)
         THEN constant(FMul(left[2], right[2]))
    ELSE IF IsVariable(left) /\ IsVariable(right) /\ left[2] = right[2]
         THEN power(variable(left[2]), constant(FInt(2)))
    ELSE multiply(left, right)

\* simplifyMultiply without the rule x * 1 = x.
simplifyMultiply_keepOne(left, right) ==
    IF IsConstEq(left, Zero) \/ IsConstEq(right, Zero) THEN constant(Zero)
    ELSE IF IsConstEq(left, One) THEN right
    ELSE IF IsConstant(left) /\ IsConstant(right)
         THEN constant(FMul(left[2], right[2]))
    ELSE IF IsVariable(left) /\ IsVariable(right) /\ left[2] = right[2]
         THEN power(variable(left[2]), constant(FInt(2)))
    ELSE multiply(left, right)

simplifyMultiply(left, right) ==
    IF IsConstEq(left, Zero) \/ IsConstEq(right, Zero) THEN constant(Zero)
    ELSE IF IsConstEq(left, One) THEN right
    ELSE IF IsConstEq(right, One) THEN left
    ELSE IF IsConstant(left) /\ IsConstant(right)
         THEN constant(FMul(left[2], right[2]))
    ELSE IF IsVariable(left) /\ IsVariable(right) /\ left[2] = right[2]
         THEN power(variable(left[2]), constant(FInt(2)))
    ELSE multiply(left, right)

simplifyDivide(left, right) ==
    IF IsConstEq(left, Zero) THEN constant(Zero)
    ELSE IF IsConstEq(right, One) THEN left
    ELSE IF IsConstant(left) /\ IsConstant(right) /\ ~FEq(right[2], Zero)
         THEN constant(FDiv(left[2], right[2]))
    ELSE IF IsVariable(left) /\ IsVariable(right) /\ left[2] = right[2]
         THEN constant(One)
    ELSE divide(left, right)

\* simplifyPower without its last arm, the numeric fold of c^n.
simplifyPower_noFold(base, exponent) ==
    IF IsConstEq(exponent, Zero) THEN constant(One)
    ELSE IF IsConstEq(exponent, One) THEN base
    ELSE IF IsConstEq(base, Zero) /\ IsConstant(exponent) /\ FPositive(exponent[2])
         THEN constant(Zero)
    ELSE IF IsConstEq(base, One) THEN constant(One)
    ELSE power(base, exponent)

simplifyPower(base, exponent) ==
    IF IsConstEq(exponent, Zero) THEN constant(One)
    ELSE IF IsConstEq(exponent, One) THEN base
    ELSE IF IsConstEq(base, Zero) /\ IsConstant(exponent) /\ FPositive(exponent[2])
         THEN constant(Zero)
    ELSE IF IsConstEq(base, One) THEN constant(One)
    ELSE IF IsConstant(base) /\ IsConstant(exponent)
         THEN constant(FPow(base[2], exponent[2]))
    ELSE power(base, exponent)

RECURSIVE simplify(_)

\* simplifyRoot that builds the Power node and does not simplify it again.
simplifyRoot_once(base, n) == power(base, divide(constant(One), n))

\* simplifyRoot that keeps the Root node.
simplifyRoot_kept(base, n) == root(base, n)

simplifyRoot(base, n) == simplify(power(base, divide(constant(One), n)))

simplifySin(simplified) ==
    IF IsConstEq(simplified, Zero) THEN constant(Zero) ELSE sin(simplified)

simplifyCos(simplified) ==
    IF IsConstEq(simplified, Zero) THEN constant(One) ELSE cos(simplified)

simplifyTan(simplified) ==
    IF IsConstEq(simplified, Zero) THEN constant(Zero) ELSE tan(simplified)

simplifyArcsin(simplified) ==
    IF IsConstEq(simplified, Zero) THEN constant(Zero)
    ELSE IF IsConstEq(simplified, One) THEN constant(FDiv(PI, FInt(2)))
    ELSE IF IsConstEq(simplified, FInt(-1)) THEN constant(FDiv(FNeg(PI), FInt(2)))
    ELSE arcsin(simplified)

simplifyArccos(simplified) ==
    IF IsConstEq(simplified, One) THEN constant(Zero)
    ELSE IF IsConstEq(simplified, FInt(-1)) THEN constant(PI)
    ELSE IF IsConstEq(simplified, Zero) THEN constant(FDiv(PI, FInt(2)))
    ELSE arccos(simplified)

simplifyArctan(simplified) ==
    IF IsConstEq(simplified, Zero) THEN constant(Zero)
    ELSE IF IsConstEq(simplified, One) THEN constant(FDiv(PI, FInt(4)))
    ELSE IF IsConstEq(simplified, FInt(-1)) THEN constant(FDiv(FNeg(PI), FInt(4)))
    ELSE arctan(simplified)

simplifyExp(simplified) ==
    IF IsConstEq(simplified, Zero) THEN constant(One)
    ELSE IF IsConstEq(simplified, One) THEN constant(E)
    ELSE IF Tag(simplified) = "Ln" THEN simplify(simplified[2])
    ELSE exp(simplified)

\* simplifyLn that gives up on ln of a negative constant with a marker that is
\* no Expression.
simplifyLn_partial(simplified) ==
    IF IsConstEq(simplified, One) THEN constant(Zero)
    ELSE IF IsConstEq(simplified, E) THEN constant(One)
    ELSE IF IsConstant(simplified) /\ simplified[2][1] < 0
         THEN <<"Undefined", "ln of a negative number">>
    ELSE IF Tag(simplified) = "Exp" THEN simplify(simplified[2])
    ELSE ln(simplified)

simplifyLn(simplified) ==
    IF IsConstEq(simplified, One) THEN constant(Zero)
    ELSE IF IsConstEq(simplified, E) THEN constant(One)
    ELSE IF Tag(simplified) = "Exp" THEN simplify(simplified[2])
    ELSE ln(simplified)

simplifyLog(simplified_base, simplified_expr) ==
    IF IsConstant(simplified_base) /\ IsConstant(simplified_expr)
    THEN IF FEq(simplified_expr[2], One) THEN constant(Zero)
         ELSE IF FEq(simplified_expr[2], simplified_base[2]) THEN constant(One)
         ELSE log(constant(simplified_base[2]), constant(simplified_expr[2]))
    ELSE log(simplified_base, simplified_expr)

simplifySinh(simplified) ==
    IF IsConstEq(simplified, Zero) THEN constant(Zero) ELSE sinh(simplified)

simplifyCosh(simplified) ==
    IF IsConstEq(simplified, Zero) THEN constant(One) ELSE cosh(simplified)

simplifyTanh(simplified) ==
    IF IsConstEq(simplified, Zero) THEN constant(Zero) ELSE tanh(simplified)

\* Expression::simplify
simplify(e) ==
    CASE Tag(e) \in LeafTags -> e
      [] Tag(e) = "Add"      -> simplifyAdd(simplify(e[2]), simplify(e[3]))
      [] Tag(e) = "Subtract" -> simplifySubtract(simplify(e[2]), simplify(e[3]))
      [] Tag(e) = "Multiply" -> simplifyMultiply(simplify(e[2]), simplify(e[3]))
      [] Tag(e) = "Divide"   -> simplifyDivide(simplify(e[2]), simplify(e[3]))
      [] Tag(e) = "Power"    -> simplifyPower(simplify(e[2]), simplify(e[3]))
      [] Tag(e) = "Root"     -> simplifyRoot(simplify(e[2]), simplify(e[3]))
      [] Tag(e) = "Sin"      -> simplifySin(simplify(e[2]))
      [] Tag(e) = "Cos"      -> simplifyCos(simplify(e[2]))
      [] Tag(e) = "Tan"      -> simplifyTan(simplify(e[2]))
      [] Tag(e) = "Arcsin"   -> simplifyArcsin(simplify(e[2]))
      [] Tag(e) = "Arccos"   -> simplifyArccos(simplify(e[2]))
      [] Tag(e) = "Arctan"   -> simplifyArctan(simplify(e[2]))
      [] Tag(e) = "Exp"      -> simplifyExp(simplify(e[2]))
      [] Tag(e) = "Ln"       -> simplifyLn(simplify(e[2]))
      [] Tag(e) = "Log"      -> simplifyLog(simplify(e[2]), simplify(e[3]))
      [] Tag(e) = "Sinh"     -> simplifySinh(simplify(e[2]))
      [] Tag(e) = "Cosh"     -> simplifyCosh(simplify(e[2]))
      [] Tag(e) = "Tanh"     -> simplifyTanh(simplify(e[2]))

\* -------------------------------------------------------- differentiate

\* Expression::Constant(_) => Expression::constant(0.0)
differentiateConstant(c, var) == constant(Zero)

\* differentiateVariable that takes every variable for the one differentiated.
differentiateVariable_any(name, var) == constant(One)

\* Expression::Variable(name) => 1 when name == var, else 0
differentiateVariable(name, var) ==
    IF name = var THEN constant(One) ELSE constant(Zero)

\* differentiatePower that gives up on a non-constant exponent, as integrate
\* does, and returns a marker that is no Expression.
differentiatePower_partial(base, exponent, dbase) ==
    IF IsConstant(exponent)
    THEN multiply(constant(exponent[2]),
                  multiply(power(base, constant(FSub(exponent[2], One))), dbase))
    ELSE <<"Unsupported", "general powers">>

\* differentiatePower with the factor base^exponent in the general case.
differentiatePower_timesPower(base, exponent, dbase) ==
    IF IsConstant(exponent)
    THEN multiply(constant(exponent[2]),
                  multiply(power(base, constant(FSub(exponent[2], One))), dbase))
    ELSE multiply(power(base, exponent),
                  multiply(exponent, multiply(ln(base), dbase)))

\* Expression::Power(base, exponent), given base.differentiate(var)
differentiatePower(base, exponent, dbase) ==
    IF IsConstant(exponent)
    THEN multiply(constant(exponent[2]),
                  multiply(power(base, constant(FSub(exponent[2], One))), dbase))
    ELSE multiply(exponent, multiply(ln(base), dbase))

\* 1/sqrt(1 - x^2), the denominator shared by Arcsin and Arccos
ArcDenom(expr) ==
    power(subtract(constant(One), power(expr, constant(FInt(2)))),
          constant(Mk(1, 2, "1")))

\* differentiateRoot that folds 1/n when n is a Constant.
differentiateRoot_folded(base, n) ==
    IF IsConstant(n) THEN power(base, constant(FDiv(One, n[2])))
    ELSE power(base, divide(constant(One), n))

\* Expression::Root(base, n): the Power that is differentiated in its place
differentiateRoot(base, n) == power(base, divide(constant(One), n))

\* Expression::differentiate
RECURSIVE differentiate(_, _)
differentiate(e, var) ==
    CASE Tag(e) = "Constant" -> differentiateConstant(e[2], var)
      [] Tag(e) = "Variable" -> differentiateVariable(e[2], var)
      [] Tag(e) = "Add" ->
            add(differentiate(e[2], var), differentiate(e[3], var))
      [] Tag(e) = "Subtract" ->
            subtract(differentiate(e[2], var), differentiate(e[3], var))
      [] Tag(e) = "Multiply" ->
            add(multiply(differentiate(e[2], var), e[3]),
                multiply(e[2], differentiate(e[3], var)))
      [] Tag(e) = "Divide" ->
            divide(subtract(multiply(e[3], differentiate(e[2], var)),
                            multiply(e[2], differentiate(e[3], var))),
                   power(e[3], constant(FInt(2))))
      [] Tag(e) = "Power" ->
            differentiatePower(e[2], e[3], differentiate(e[2], var))
      [] Tag(e) = "Root" ->
            differentiate(differentiateRoot(e[2], e[3]), var)
      [] Tag(e) = "Sin" ->
            multiply(cos(e[2]), differentiate(e[2], var))
      [] Tag(e) = "Cos" ->
            multiply(multiply(constant(FInt(-1)), sin(e[2])),
                     differentiate(e[2], var))
      [] Tag(e) = "Tan" ->
            multiply(divide(constant(One), power(cos(e[2]), constant(FInt(2)))),
                     differentiate(e[2], var))
      [] Tag(e) = "Arcsin" ->
            multiply(differentiate(e[2], var),
                     divide(constant(One), ArcDenom(e[2])))
      [] Tag(e) = "Arccos" ->
            multiply(differentiate(e[2], var),
                     multiply(constant(FInt(-1)),
                              divide(constant(One), ArcDenom(e[2]))))
      [] Tag(e) = "Arctan" ->
            multiply(differentiate(e[2], var),
                     divide(constant(One),
                            add(constant(One), power(e[2], constant(FInt(2))))))
      [] Tag(e) = "Exp" ->
            multiply(exp(e[2]), differentiate(e[2], var))
      [] Tag(e) = "Ln" ->
            multiply(divide(constant(One), e[2]), differentiate(e[2], var))
      [] Tag(e) = "Log" ->
            multiply(differentiate(e[3], var),
                     divide(constant(One), multiply(e[3], ln(e[2]))))
      [] Tag(e) = "Sinh" ->
            multiply(cosh(e[2]), differentiate(e[2], var))
      [] Tag(e) = "Cosh" ->
            multiply(sinh(e[2]), differentiate(e[2], var))
      [] Tag(e) = "Tanh" ->
            multiply(subtract(constant(One),
                              power(tanh(e[2]), constant(FInt(2)))),
                     differentiate(e[2], var))

\* ------------------------------------------------------------ integrate
\* A Result<Expression, IntegrationError> is [ok |-> TRUE, val |-> expression]
\* or [ok |-> FALSE, err |-> the message of IntegrationError(String)].

Ok(expression) == [ok |-> TRUE, val |-> expression]

Err(message) == [ok |-> FALSE, err |-> message]

\* (n - (-1.0)).abs() > 1e-10. A tracked distance is 0, NaN, infinite, or at
\* least 1/MaxExact, which is more than 1e-10; NaN > 1e-10 is false.
\* The one other tracked value within 1e-10 of -1 is -Near.
FarFromMinusOne(n) ==
    LET dist == FSub(n, FInt(-1))
    IN  ~IsNaN(dist) /\ ~IsZero(dist) /\ n # FNeg(Near)

\* integrateVariable with x^2/3 for x^2/2.
integrateVariable_third(name, var) ==
    IF name = var
    THEN Ok(divide(power(variable(var), constant(FInt(2))), constant(FInt(3))))
    ELSE Ok(multiply(variable(name), variable(var)))

\* Expression::Variable(name)
integrateVariable(name, var) ==
    IF name = var
    THEN Ok(divide(power(variable(var), constant(FInt(2))), constant(FInt(2))))
    ELSE Ok(multiply(variable(name), variable(var)))

\* integrateTermwise that reports the right error before the left one.
integrateTermwise_rightFirst(tag, left_int, right_int) ==
    IF ~right_int.ok THEN right_int
    ELSE IF ~left_int.ok THEN left_int
    ELSE Ok(<<tag, left_int.val, right_int.val>>)

\* Expression::Add / Subtract, given the two recursive results: the ?
\* operator returns the left error first, then the right one.
integrateTermwise(tag, left_int, right_int) ==
    IF ~left_int.ok THEN left_int
    ELSE IF ~right_int.ok THEN right_int
    ELSE Ok(<<tag, left_int.val, right_int.val>>)

\* integrateConstantMultiple that fails with an error of its own.
integrateConstantMultiple_ownError(c, int) ==
    IF ~int.ok THEN Err("Cannot integrate this product")
    ELSE Ok(multiply(constant(c), int.val))

\* Expression::Multiply, constant-multiple arm, given expr.integrate(var)
integrateConstantMultiple(c, int) ==
    IF ~int.ok THEN int ELSE Ok(multiply(constant(c), int.val))

\* integrateProduct with one message for every product.
integrateProduct_oneMessage(left, right, var) ==
    IF IsVariable(left) /\ IsVariable(right) /\ left[2] = right[2] /\ left[2] = var
    THEN Ok(divide(power(variable(left[2]), constant(FInt(3))),
                   constant(FInt(3))))
    ELSE Err("Cannot integrate this product")

\* integrateProduct without the test that the variable is var.
integrateProduct_anySquare(left, right, var) ==
    IF IsVariable(left) /\ IsVariable(right) /\ left[2] = right[2]
    THEN Ok(divide(power(variable(left[2]), constant(FInt(3))),
                   constant(FInt(3))))
    ELSE Err("Integration of general products not implemented")

\* Expression::Multiply, the arms without a Constant factor
integrateProduct(left, right, var) ==
    IF IsVariable(left) /\ IsVariable(right) /\ left[2] = right[2]
    THEN IF left[2] = var
         THEN Ok(divide(power(variable(left[2]), constant(FInt(3))),
                        constant(FInt(3))))
         ELSE Err("Cannot integrate this product")
    ELSE Err("Integration of general products not implemented")

\* integratePower without the test for n = -1.
integratePower_noLn(base, exponent, var) ==
    IF IsVariable(base) /\ IsConstant(exponent) /\ base[2] = var
    THEN Ok(divide(power(variable(var), constant(FAdd(exponent[2], One))),
                   constant(FAdd(exponent[2], One))))
    ELSE Err("Integration of general powers not implemented")

\* Expression::Power(base, exponent)
integratePower(base, exponent, var) ==
    IF IsVariable(base) /\ IsConstant(exponent) /\ base[2] = var
    THEN IF FarFromMinusOne(exponent[2])
         THEN Ok(divide(power(variable(var), constant(FAdd(exponent[2], One))),
                        constant(FAdd(exponent[2], One))))
         ELSE Ok(ln(variable(var)))
    ELSE Err("Integration of general powers not implemented")

\* integrateDivide that fails with a variant name for a message.
integrateDivide_variant(num, den, var) ==
    IF IsVariable(den) /\ IsConstEq(num, One) /\ den[2] = var
    THEN Ok(multiply(constant(One), ln(variable(var))))
    ELSE Err("NoMethodFound")

\* Expression::Divide(num, den)
integrateDivide(num, den, var) ==
    IF IsVariable(den) /\ IsConstEq(num, One) /\ den[2] = var
    THEN Ok(multiply(constant(One), ln(variable(var))))
    ELSE Err("Cannot integrate this division")

\* A unary function of the integration variable itself, or the given error.
integrateOfVar(expr, var, result, message) ==
    IF IsVariable(expr) /\ expr[2] = var THEN Ok(result) ELSE Err(message)

\* integrateRoot that folds 1/n when n is a Constant.
integrateRoot_folded(base, n) ==
    IF IsConstant(n) THEN power(base, constant(FDiv(One, n[2])))
    ELSE power(base, divide(constant(One), n))

\* Expression::Root(base, n): the Power that is integrated in its place
integrateRoot(base, n) == power(base, divide(constant(One), n))

\* Expression::integrate (calculus.rs)
RECURSIVE integrate(_, _)
integrate(e, var) ==
    CASE Tag(e) = "Constant" -> Ok(multiply(constant(e[2]), variable(var)))
      [] Tag(e) = "Variable" -> integrateVariable(e[2], var)
      [] Tag(e) \in {"Add", "Subtract"} ->
            integrateTermwise(Tag(e), integrate(e[2], var), integrate(e[3], var))
      [] Tag(e) = "Multiply" ->
            IF IsConstant(e[2])
            THEN integrateConstantMultiple(e[2][2], integrate(e[3], var))
            ELSE IF IsConstant(e[3])
            THEN integrateConstantMultiple(e[3][2], integrate(e[2], var))
            ELSE integrateProduct(e[2], e[3], var)
      [] Tag(e) = "Power" -> integratePower(e[2], e[3], var)
      [] Tag(e) = "Root" ->
            integrate(integrateRoot(e[2], e[3]), var)
      [] Tag(e) = "Divide" -> integrateDivide(e[2], e[3], var)
      [] Tag(e) = "Sin" ->
            integrateOfVar(e[2], var,
                multiply(constant(FInt(-1)), cos(variable(var))),
                "Cannot integrate sin of complex expression")
      [] Tag(e) = "Cos" ->
            integrateOfVar(e[2], var, sin(variable(var)),
                "Cannot integrate cos of complex expression")
      [] Tag(e) = "Tan" ->
            integrateOfVar(e[2], var,
                multiply(constant(FInt(-1)), ln(cos(variable(var)))),
                "Cannot integrate tan of complex expression")
      [] Tag(e) = "Exp" ->
            integrateOfVar(e[2], var, exp(variable(var)),
                "Cannot integrate exp of complex expression")
      [] Tag(e) = "Ln" ->
            integrateOfVar(e[2], var,
                subtract(multiply(variable(var), ln(variable(var))),
                         variable(var)),
                "Cannot integrate ln of complex expression")
      [] Tag(e) = "Arcsin" -> Err("Integration of arcsin not implemented")
      [] Tag(e) = "Arccos" -> Err("Integration of arccos not implemented")
      [] Tag(e) = "Arctan" -> Err("Integration of arctan not implemented")
      [] Tag(e) = "Log" ->
            Err("Integration of logarithm with arbitrary base not implemented")
      [] Tag(e) = "Sinh" ->
            integrateOfVar(e[2], var, cosh(variable(var)),
                "Cannot integrate sinh of complex expression")
      [] Tag(e) = "Cosh" ->
            integrateOfVar(e[2], var, sinh(variable(var)),
                "Cannot integrate cosh of complex expression")
      [] Tag(e) = "Tanh" ->
            integrateOfVar(e[2], var, ln(cosh(variable(var))),
                "Cannot integrate tanh of complex expression")

\* ----------------------------------------------------- IntegrationTable

\* An Option: None, or Some(value).
None == [some |-> FALSE]

Some(value) == [some |-> TRUE, val |-> value]

\* IntegrationRule { pattern, result }
IntegrationRule(pattern, result) == [pattern |-> pattern, result |-> result]

\* IntegrationTable::new: the rules initialize_rules adds, in order.
initialize_rules ==
    <<IntegrationRule(
          power(variable("x"), variable("n")),
          divide(power(variable("x"), add(variable("n"), constant(One))),
                 add(variable("n"), constant(One)))),
      IntegrationRule(
          sin(variable("x")),
          multiply(constant(FInt(-1)), cos(variable("x")))),
      IntegrationRule(cos(variable("x")), sin(variable("x"))),
      IntegrationRule(
          tan(variable("x")),
          multiply(constant(FInt(-1)), ln(cos(variable("x"))))),
      IntegrationRule(exp(variable("x")), exp(variable("x"))),
      IntegrationRule(
          ln(variable("x")),
          subtract(multiply(variable("x"), ln(variable("x"))), variable("x"))),
      IntegrationRule(sinh(variable("x")), cosh(variable("x"))),
      IntegrationRule(cosh(variable("x")), sinh(variable("x"))),
      IntegrationRule(tanh(variable("x")), ln(cosh(variable("x"))))>>

\* matches that holds when the expression is the pattern itself.
matches_equal(pattern, expr, var) == ExprEq(pattern, expr)

\* IntegrationTable::matches: the body is the literal false.
matches(pattern, expr, var) == FALSE

\* IntegrationTable::apply_rule: result.clone()
apply_rule(result, expr, var) == result

\* IntegrationTable::lookup, from the i-th rule on: the first rule that
\* matches gives Some(Ok(..)); none gives None.
RECURSIVE lookupFrom(_, _, _, _)
lookupFrom(rules, i, expr, var) ==
    IF i > Len(rules) THEN None
    ELSE IF matches(rules[i].pattern, expr, var)
         THEN Some(Ok(apply_rule(rules[i].result, expr, var)))
    ELSE lookupFrom(rules, i + 1, expr, var)

\* IntegrationTable::lookup
lookup(rules, expr, var) == lookupFrom(rules, 1, expr, var)

\* OrElse that fails when the table has no rule.
OrElse_noFallback(found, fallback) ==
    IF found.some THEN found.val ELSE Err("No matching rule")

\* if let Some(result) = lookup(..) { return result; } and then the match.
OrElse(found, fallback) == IF found.some THEN found.val ELSE fallback

\* Expression::integrate (calculus/integrate.rs): the table first, then the
\* arms of calculus.rs, with every recursive call going through the table
\* again. The arms that make no recursive call are those of integrate.
RECURSIVE integrateWithTable(_, _, _)
integrateWithTable(rules, e, var) ==
    OrElse(lookup(rules, e, var),
        CASE Tag(e) \in {"Add", "Subtract"} ->
                integrateTermwise(Tag(e),
                    integrateWithTable(rules, e[2], var),
                    integrateWithTable(rules, e[3], var))
          [] Tag(e) = "Multiply" /\ IsConstant(e[2]) ->
                integrateConstantMultiple(e[2][2],
                    integrateWithTable(rules, e[3], var))
          [] Tag(e) = "Multiply" /\ ~IsConstant(e[2]) /\ IsConstant(e[3]) ->
                integrateConstantMultiple(e[3][2],
                    integrateWithTable(rules, e[2], var))
          [] Tag(e) = "Root" ->
                integrateWithTable(rules, integrateRoot(e[2], e[3]), var)
          [] OTHER -> integrate(e, var))

\* ----------------------------------------------------- IntegrationState

\* IntegrationState::new
new(max_depth) ==
    [depth |-> 0, max_depth |-> max_depth, visited_expressions |-> <<>>,
     current_method |-> "Direct"]

\* The unary variants is_similar compares by their arguments.
SimilarUnaryTags == {"Sin", "Cos", "Tan", "Exp", "Ln"}

\* IntegrationState::is_similar
RECURSIVE is_similar(_, _)
is_similar(expr1, expr2) ==
    IF ExprEq(expr1, expr2) THEN TRUE
    ELSE IF Tag(expr1) # Tag(expr2) THEN FALSE
    ELSE IF Tag(expr1) \in {"Multiply", "Add"}
         THEN \/ is_similar(expr1[2], expr2[2]) /\ is_similar(expr1[3], expr2[3])
              \/ is_similar(expr1[2], expr2[3]) /\ is_similar(expr1[3], expr2[2])
    ELSE IF Tag(expr1) = "Subtract"
         THEN is_similar(expr1[2], expr2[2]) /\ is_similar(expr1[3], expr2[3])
    ELSE IF Tag(expr1) \in SimilarUnaryTags
         THEN is_similar(expr1[2], expr2[2])
    ELSE FALSE

\* should_prune without the comparison with the visited expressions.
should_prune_depthOnly(self, expr) == self.depth >= self.max_depth

\* should_prune with > for >=.
should_prune_strict(self, expr) ==
    \/ self.depth > self.max_depth
    \/ \E i \in 1 .. Len(self.visited_expressions) :
            is_similar(self.visited_expressions[i], expr)

\* IntegrationState::should_prune
should_prune(self, expr) ==
    \/ self.depth >= self.max_depth
    \/ \E i \in 1 .. Len(self.visited_expressions) :
            is_similar(self.visited_expressions[i], expr)

\* push_expression that leaves depth as it is.
push_expression_keepDepth(self, expr) ==
    [self EXCEPT !.visited_expressions = Append(@, expr)]

\* IntegrationState::push_expression
push_expression(self, expr) ==
    [self EXCEPT !.visited_expressions = Append(@, expr), !.depth = @ + 1]

\* pop_expression that leaves depth as it is.
pop_expression_keepDepth(self) ==
    [self EXCEPT !.visited_expressions =
                     IF @ = <<>> THEN @ ELSE SubSeq(@, 1, Len(@) - 1)]

\* IntegrationState::pop_expression
pop_expression(self) ==
    [self EXCEPT !.visited_expressions =
                     IF @ = <<>> THEN @ ELSE SubSeq(@, 1, Len(@) - 1),
                 !.depth = IF @ > 0 THEN @ - 1 ELSE @]

\* IntegrationState::set_method
set_method(self, method) == [self EXCEPT !.current_method = method]

\* IntegrationState::get_method
get_method(self) == self.current_method

\* --------------------------------------------------------------- parser
\* A string is a sequence of characters, each a string of length one; the
\* parser holds the characters it has not consumed yet (self.input).

DigitChars == <<"0", "1", "2", "3", "4", "5", "6", "7", "8", "9">>

\* char::is_digit(10)
IsDigit(c) == \E i \in 1 .. Len(DigitChars) : DigitChars[i] = c

DigitValue(c) == (CHOOSE i \in 1 .. Len(DigitChars) : DigitChars[i] = c) - 1

\* 'a'..='z' | 'A'..='Z'
IsLetter(c) ==
    c \in {"a", "b", "c", "d", "e", "f", "g", "h", "i", "j", "k", "l", "m",
           "n", "o", "p", "q", "r", "s", "t", "u", "v", "w", "x", "y", "z",
           "A", "B", "C", "D", "E", "F", "G", "H", "I", "J", "K", "L", "M",
           "N", "O", "P", "Q", "R", "S", "T", "U", "V", "W", "X", "Y", "Z"}

\* char::is_alphanumeric
IsAlphanumeric(c) == IsLetter(c) \/ IsDigit(c)

\* char::is_whitespace
IsWhitespace(c) == c \in {" ", "\t", "\n"}

\* Some(&c) = self.input.peek()
PeekIs(in, c) == in # <<>> /\ Head(in) = c

\* The characters of s joined into one string.
RECURSIVE Join(_)
Join(s) == IF s = <<>> THEN "" ELSE Head(s) \o Join(Tail(s))

\* What a parsing function returns, with the input it left unconsumed.
POk(expression, rest) == [ok |-> TRUE, val |-> expression, rest |-> rest]

PErr(message, rest) == [ok |-> FALSE, err |-> message, rest |-> rest]

RECURSIVE skip_whitespace(_)
skip_whitespace(in) ==
    IF in # <<>> /\ IsWhitespace(Head(in)) THEN skip_whitespace(Tail(in))
    ELSE in

\* The longest prefix of in whose characters all satisfy the test of kind:
\* "identifier" is_alphanumeric, "number" is_digit(10) or '.'.
RECURSIVE Scan(_, _)
Scan(in, kind) ==
    IF in # <<>> /\ (IF kind = "identifier" THEN IsAlphanumeric(Head(in))
                     ELSE IsDigit(Head(in)) \/ Head(in) = ".")
    THEN <<Head(in)>> \o Scan(Tail(in), kind)
    ELSE <<>>

\* The number the digits ds spell in base ten.
RECURSIVE Decimal(_)
Decimal(ds) ==
    IF ds = <<>> THEN 0
    ELSE 10 * Decimal(SubSeq(ds, 1, Len(ds) - 1)) + DigitValue(ds[Len(ds)])

\* str::parse::<f64> on a string of digits and dots that starts with a digit:
\* at most one dot is a number, more is an error.
parse_number(in) ==
    LET number == Scan(in, "number")
        rest   == SubSeq(in, Len(number) + 1, Len(in))
        dots   == {i \in 1 .. Len(number) : number[i] = "."}
        digits == SelectSeq(number, IsDigit)
    IN  IF Cardinality(dots) > 1
        THEN PErr("Invalid number: " \o Join(number), rest)
        ELSE LET frac == IF dots = {} THEN 0
                         ELSE Len(number) - (CHOOSE i \in dots : TRUE)
                 den  == IPow(10, frac)
             IN  POk(constant(IF den < 0 THEN Untracked(1)
                              ELSE Mk(Decimal(digits), den, "1")), rest)

expect_char(in, expected) ==
    LET s == skip_whitespace(in)
    IN  IF s = <<>>
        THEN PErr("Expected '" \o expected \o "', found end of input", s)
        ELSE IF Head(s) = expected THEN POk(<<>>, Tail(s))
        ELSE PErr("Expected '" \o expected \o "', found '" \o Head(s) \o "'",
                  Tail(s))

\* The names parse_primary takes for a function, with the variant they make.
FunctionNames ==
    [sin |-> "Sin", cos |-> "Cos", tan |-> "Tan", arcsin |-> "Arcsin",
     arccos |-> "Arccos", arctan |-> "Arctan", ln |-> "Ln", exp |-> "Exp",
     sinh |-> "Sinh", cosh |-> "Cosh", tanh |-> "Tanh"]

\* parse_identifier: the alphanumeric characters at the head of the input.
parse_identifier(in) ==
    LET name == Scan(in, "identifier")
    IN  IF name = <<>> THEN PErr("Expected identifier", in)
        ELSE POk(Join(name), SubSeq(in, Len(name) + 1, Len(in)))

RECURSIVE parse_expression(_)
RECURSIVE parse_add_sub_loop(_, _)
RECURSIVE parse_mul_div_loop(_, _)
RECURSIVE parse_power_loop(_, _)
RECURSIVE parse_primary(_)

\* self.expect_char(')')? after the expression inner, wrapped by wrap ("" for
\* a parenthesis, else the variant of a function).
Closed(inner, wrap) ==
    LET close == expect_char(inner.rest, ")")
    IN  IF ~inner.ok THEN inner
        ELSE IF ~close.ok THEN close
        ELSE POk(IF wrap = "" THEN inner.val ELSE <<wrap, inner.val>>,
                 close.rest)

\* '(' expression ')' after the '(' was consumed.
Parenthesized(in, wrap) == Closed(parse_expression(in), wrap)

\* parse_function, after skip_whitespace.
parse_function_at(s, constructor) ==
    IF PeekIs(s, "(") THEN Parenthesized(Tail(s), constructor)
    ELSE PErr("Expected '(' after function name", s)

parse_function(in, constructor) ==
    parse_function_at(skip_whitespace(in), constructor)

\* Ok(Expression::exp(power)) for let power = self.parse_primary()?
ExpOf(pow) == IF pow.ok THEN POk(exp(pow.val), pow.rest) ELSE pow

\* The "e" case of parse_primary, after the identifier was consumed.
parse_e(in) ==
    IF PeekIs(in, "^") THEN ExpOf(parse_primary(Tail(in)))
    ELSE POk(constant(E), in)

\* match name.as_str() for let name = self.parse_identifier()?
parse_named(name) ==
    IF ~name.ok THEN name
    ELSE IF name.val \in DOMAIN FunctionNames
         THEN parse_function(name.rest, FunctionNames[name.val])
    ELSE IF name.val = "e" THEN parse_e(name.rest)
    ELSE POk(variable(name.val), name.rest)

\* parse_primary, after skip_whitespace.
parse_primary_at(s) ==
    IF s = <<>> THEN PErr("Unexpected end of input", s)
    ELSE IF IsDigit(Head(s)) THEN parse_number(s)
    ELSE IF Head(s) = "(" THEN Parenthesized(Tail(s), "")
    ELSE IF IsLetter(Head(s)) THEN parse_named(parse_identifier(s))
    ELSE PErr("Unexpected character: " \o Head(s), s)

parse_primary(in) == parse_primary_at(skip_whitespace(in))

\* left = Expression::power(left, right) for let right = self.parse_primary()?,
\* and the loop again.
parse_power_step(left, right) ==
    IF ~right.ok THEN right
    ELSE parse_power_loop(power(left, right.val), right.rest)

RECURSIVE parse_power_loop_rightRecursive(_, _)
RECURSIVE parse_power_rightRecursive(_)

\* parse_power_step that ends the loop.
parse_power_step_last(left, right) ==
    IF ~right.ok THEN right ELSE POk(power(left, right.val), right.rest)

\* parse_power_loop whose right side is a whole power chain.
parse_power_loop_rightRecursive(left, in) ==
    IF in = <<>> THEN POk(left, in)
    ELSE IF IsWhitespace(Head(in))
         THEN parse_power_loop_rightRecursive(left, Tail(in))
    ELSE IF Head(in) = "^"
         THEN parse_power_step_last(left, parse_power_rightRecursive(Tail(in)))
    ELSE POk(left, in)

\* let mut left = self.parse_primary()?, then the right-recursive loop.
parse_power_first_rightRecursive(left) ==
    IF ~left.ok THEN left
    ELSE parse_power_loop_rightRecursive(left.val, left.rest)

parse_power_rightRecursive(in) ==
    parse_power_first_rightRecursive(parse_primary(in))

\* The while loop of parse_power, with left the expression built so far.
parse_power_loop(left, in) ==
    IF in = <<>> THEN POk(left, in)
    ELSE IF IsWhitespace(Head(in)) THEN parse_power_loop(left, Tail(in))
    ELSE IF Head(in) = "^"
         THEN parse_power_step(left, parse_primary(Tail(in)))
    ELSE POk(left, in)

\* let mut left = self.parse_primary()?, then the loop.
parse_power_first(left) ==
    IF ~left.ok THEN left ELSE parse_power_loop(left.val, left.rest)

parse_power(in) == parse_power_first(parse_primary(in))

\* left = Expression::multiply or divide (left, right) for let right =
\* self.parse_power()?, and the loop again.
parse_mul_div_step(op, left, right) ==
    IF ~right.ok THEN right
    ELSE parse_mul_div_loop(IF op = "*" THEN multiply(left, right.val)
                            ELSE divide(left, right.val), right.rest)

\* The while loop of parse_mul_div.
parse_mul_div_loop(left, in) ==
    IF in = <<>> THEN POk(left, in)
    ELSE IF IsWhitespace(Head(in)) THEN parse_mul_div_loop(left, Tail(in))
    ELSE IF Head(in) \in {"*", "/"}
         THEN parse_mul_div_step(Head(in), left, parse_power(Tail(in)))
    ELSE POk(left, in)

parse_mul_div_first(left) ==
    IF ~left.ok THEN left ELSE parse_mul_div_loop(left.val, left.rest)

parse_mul_div(in) == parse_mul_div_first(parse_power(in))

\* left = Expression::add or subtract (left, right) for let right =
\* self.parse_mul_div()?, and the loop again.
parse_add_sub_step(op, left, right) ==
    IF ~right.ok THEN right
    ELSE parse_add_sub_loop(IF op = "+" THEN add(left, right.val)
                            ELSE subtract(left, right.val), right.rest)

\* The while loop of parse_add_sub.
parse_add_sub_loop(left, in) ==
    IF in = <<>> THEN POk(left, in)
    ELSE IF IsWhitespace(Head(in)) THEN parse_add_sub_loop(left, Tail(in))
    ELSE IF Head(in) \in {"+", "-"}
         THEN parse_add_sub_step(Head(in), left, parse_mul_div(Tail(in)))
    ELSE POk(left, in)

parse_add_sub_first(left) ==
    IF ~left.ok THEN left ELSE parse_add_sub_loop(left.val, left.rest)

parse_add_sub(in) == parse_add_sub_first(parse_mul_div(in))

parse_expression(in) == parse_add_sub(in)

\* ExpressionParser::parse
parse(in) == parse_expression(in)

\* --------------------------------------------------------------- inputs

VarNames == {"x", "y"}

Leaves ==
    {constant(FInt(k)) : k \in -1 .. MaxConst} \cup {variable(n) : n \in VarNames}

Unary(S) == {<<t, a>> : t \in UnaryTags, a \in S}

Binary(S, T) == {<<t, a, b>> : t \in BinaryTags, a \in S, b \in T}

\* Every variant applied to leaves.
Level1 == Unary(Leaves) \cup Binary(Leaves, Leaves)

\* Every variant applied to a Level1 expression and, if binary, a leaf; and the
\* inverse pairs exp(ln(..)), ln(exp(..)) around a Level1 expression.
Level2 ==
    Unary(Level1) \cup Binary(Leaves, Level1) \cup Binary(Level1, Leaves)
    \cup {exp(ln(a)) : a \in Level1} \cup {ln(exp(a)) : a \in Level1}

\* Binary variants over two non-leaf operands, built from three leaves.
CoreLeaves == {constant(Zero), constant(FInt(2)), variable("x")}

Core1 == CoreLeaves \cup Unary(CoreLeaves) \cup Binary(CoreLeaves, CoreLeaves)

SimplifyInputs == Leaves \cup Level1 \cup Level2

BushyInputs == Binary(Core1, Core1)

\* Exponents beside the integer leaves: negative integers below -1, a
\* fraction, -0.99999999999, and the infinity and NaN constant folding can
\* leave.
ExponentSamples == {FInt(-3), FInt(-2), Mk(1, 2, "1"), FNeg(Near), PInf, NaN}

PowerInputs ==
    {power(variable(n), constant(c)) : n \in VarNames, c \in ExponentSamples}

\* Terms whose integral succeeds, and terms whose integral fails.
TermSamples ==
    {constant(FInt(2)), variable("x"), variable("y"),
     sin(variable("x")), exp(variable("x")),
     power(variable("x"), constant(FInt(2))),
     power(variable("x"), constant(FInt(-2))),
     sin(constant(One)), arcsin(variable("x")),
     divide(variable("x"), variable("y")),
     multiply(variable("x"), exp(variable("x")))}

\* Sums, differences and products of the sample terms: termwise integration
\* and the products whose by-parts expansion would regenerate the integrand.
TermInputs ==
    {<<t, a, b>> : t \in {"Add", "Subtract", "Multiply"},
                   a \in TermSamples, b \in TermSamples}
    \cup {multiply(a, constant(FInt(2))) : a \in TermSamples}
    \cup {multiply(constant(FInt(2)), a) : a \in TermSamples}
    \cup {multiply(multiply(variable("x"), exp(variable("x"))), variable("x")),
          multiply(exp(variable("x")), multiply(variable("x"), exp(variable("x"))))}

CalculusInputs == Leaves \cup Level1 \cup PowerInputs \cup TermInputs

\* The characters of the enumerated strings.
Alphabet == {"e", "x", "2", "^", " ", "(", ")"}

\* Every string over the alphabet of at most n characters.
Texts(n) == UNION {[1 .. k -> Alphabet] : k \in 0 .. n}

\* Strings for test_expression: six of main's own ("x^2 + 2*x + 1", "0 + x",
\* "sin(2*x)", "e^x", "ln(x)", "1/(x^2 + 1)"), two that do not parse ("(x",
\* "2*") and one with a character left over ("x)").
TestPool ==
    {<<"x", "^", "2", " ", "+", " ", "2", "*", "x", " ", "+", " ", "1">>,
     <<"0", " ", "+", " ", "x">>,
     <<"s", "i", "n", "(", "2", "*", "x", ")">>,
     <<"e", "^", "x">>,
     <<"l", "n", "(", "x", ")">>,
     <<"1", "/", "(", "x", "^", "2", " ", "+", " ", "1", ")">>,
     <<"(", "x">>,
     <<"2", "*">>,
     <<"x", ")">>}

\* Every vector of at most n strings of the pool.
TestVectors(n) == UNION {[1 .. k -> TestPool] : k \in 0 .. n}

\* Expressions looked up in the rule table: the calculus inputs, the
\* patterns of the rules themselves, and sums and multiples of patterns.
TableInputs ==
    CalculusInputs
    \cup {power(variable("x"), variable("n"))}
    \cup {add(tan(variable("x")), variable("x")),
          multiply(constant(FInt(2)), sinh(variable("x"))),
          root(tanh(variable("x")), constant(FInt(2)))}

\* Expressions pushed on an IntegrationState and asked about: pairs that
\* differ in the order of the operands of a Multiply, of a Subtract, and of an
\* Add below Sin and below Arcsin; and the NaN constant that simplify folds
\* (-1)^(1/2) to.
StateExprs ==
    {constant(NaN),
     multiply(variable("x"), exp(variable("x"))),
     multiply(exp(variable("x")), variable("x")),
     subtract(variable("x"), variable("y")),
     subtract(variable("y"), variable("x")),
     sin(add(variable("x"), variable("y"))),
     sin(add(variable("y"), variable("x"))),
     arcsin(add(variable("x"), variable("y"))),
     arcsin(add(variable("y"), variable("x")))}

\* Expressions integrated while an IntegrationState exists.
StateIntegrands == {variable("x"), multiply(variable("x"), exp(variable("x")))}

\* ---------------------------------------------------------------- state

VARIABLES
    expr,   \* the input expression
    var,    \* the variable differentiate and integrate are called with
    ops,    \* the operations applied so far, in order
    hist,   \* hist[1] = Ok(expr); hist[k+1] = what operation ops[k] returned
    text,   \* the string an ExpressionParser was made from
    input,  \* ExpressionParser.input: the characters not consumed yet
    state,  \* an IntegrationState: depth, max_depth, visited_expressions
    table,  \* IntegrationTable.rules
    tests,  \* main: the vector test_expressions
    idx,    \* main: how many of them the for loop has taken
    pc,     \* main: the statement to run next
    out     \* main: the lines printed so far

vars == <<expr, var, ops, hist, text, input, state, table, tests, idx, pc, out>>

\* The objects a specification does not use stay empty.
NoParser == text = <<>> /\ input = <<>>

NoState == state = <<>>

NoTable == table = <<>>

NoDriver == tests = <<>> /\ idx = 0 /\ pc = "" /\ out = <<>>

\* The value the next operation is applied to.
cur == hist[Len(hist)]

Apply(op, result) ==
    /\ Len(ops) < MaxOps
    /\ cur.ok
    /\ ops' = Append(ops, op)
    /\ hist' = Append(hist, result)
    /\ UNCHANGED <<expr, var, text, input, state, table, tests, idx, pc, out>>

\* expr.simplify()
Simplify == Apply("simplify", Ok(simplify(cur.val)))

\* expr.differentiate(var)
Differentiate == Apply("differentiate", Ok(differentiate(cur.val, var)))

\* expr.integrate(var)
Integrate == Apply("integrate", integrate(cur.val, var))

InitWith(inputs, names) ==
    /\ expr \in inputs
    /\ var \in names
    /\ ops = <<>>
    /\ hist = <<Ok(expr)>>
    /\ NoParser /\ NoState /\ NoTable /\ NoDriver

\* The calculus API on expressions up to Level1 and the sample terms.
Init == InitWith(CalculusInputs, VarNames)

Next == Simplify \/ Differentiate \/ Integrate

Spec == Init /\ [][Next]_vars

\* simplify alone, repeated, on expressions up to Level2 and the bushy ones.
InitSimplify ==
    \/ InitWith(SimplifyInputs, {"x"})
    \/ InitWith(BushyInputs, {"x"})

NextSimplify == Simplify

SpecSimplify == InitSimplify /\ [][NextSimplify]_vars

\* ExpressionParser::new(text), then calls of parse(): the first parses from
\* the start of the text, a later one from where the one before stopped.
InitParser ==
    /\ text \in Texts(MaxText)
    /\ input = text
    /\ ops = <<>>
    /\ hist = <<>>
    /\ expr = <<>> /\ var = "x"
    /\ NoState /\ NoTable /\ NoDriver

\* parser.parse()
Parse ==
    /\ Len(ops) < MaxOps
    /\ LET result == parse(input)
       IN  /\ ops' = Append(ops, "parse")
           /\ hist' = Append(hist, IF result.ok THEN Ok(result.val)
                                   ELSE Err(result.err))
           /\ input' = result.rest
    /\ UNCHANGED <<expr, var, text, state, table, tests, idx, pc, out>>

NextParser == Parse

SpecParser == InitParser /\ [][NextParser]_vars

\* main: test_expression on each string of the vector, in order. ops and hist
\* hold the stages run on the current string and what each returned; a line
\* of out is the pair of its label and the value it prints.
InitDriver ==
    /\ tests \in TestVectors(MaxTests)
    /\ idx = 0
    /\ pc = "for"
    /\ out = <<>>
    /\ ops = <<>> /\ hist = <<>>
    /\ text = <<>> /\ input = <<>>
    /\ expr = <<>> /\ var = "x"
    /\ NoState /\ NoTable

\* A stage of test_expression: it appends to ops, hist and out, consumes
\* input down to rest and goes to the statement at.
Stage(op, result, lines, rest, at) ==
    /\ ops' = Append(ops, op)
    /\ hist' = Append(hist, result)
    /\ out' = out \o lines
    /\ input' = rest
    /\ pc' = at
    /\ UNCHANGED <<expr, var, text, state, table, tests, idx>>

\* for expr in test_expressions: the next string, the println of line 4 and
\* ExpressionParser::new; or the end of main.
DriverFor ==
    /\ pc = "for"
    /\ IF idx < Len(tests)
       THEN /\ idx' = idx + 1
            /\ text' = tests[idx + 1]
            /\ input' = tests[idx + 1]
            /\ ops' = <<>> /\ hist' = <<>>
            /\ out' = Append(out, <<"Testing expression", tests[idx + 1]>>)
            /\ pc' = "parse"
       ELSE /\ pc' = "return"
            /\ UNCHANGED <<idx, text, input, ops, hist, out>>
    /\ UNCHANGED <<expr, var, state, table, tests>>

\* match parser.parse()
DriverParse ==
    /\ pc = "parse"
    /\ LET result == parse(input)
       IN  IF result.ok
           THEN Stage("parse", Ok(result.val), <<<<"Parsed", result.val>>>>,
                      result.rest, "simplify")
           ELSE Stage("parse", Err(result.err),
                      <<<<"Parse error", result.err>>>>, result.rest, "for")

\* let simplified = expr.simplify()
DriverSimplify ==
    /\ pc = "simplify"
    /\ LET simplified == simplify(hist[1].val)
       IN  Stage("simplify", Ok(simplified), <<<<"Simplified", simplified>>>>,
                 input, "differentiate")

\* simplified.differentiate("x")
DriverDifferentiate ==
    /\ pc = "differentiate"
    /\ Stage("differentiate", Ok(differentiate(hist[2].val, "x")), <<>>,
             input, "simplify derivative")

\* let derivative = (..).simplify()
DriverSimplifyDerivative ==
    /\ pc = "simplify derivative"
    /\ LET derivative == simplify(hist[3].val)
       IN  Stage("simplify", Ok(derivative), <<<<"Derivative", derivative>>>>,
                 input, "integrate")

\* DriverIntegrate where an integration error ends main.
DriverIntegrate_stops ==
    /\ pc = "integrate"
    /\ LET result == integrate(hist[2].val, "x")
       IN  IF result.ok
           THEN Stage("integrate", result, <<>>, input, "simplify integral")
           ELSE Stage("integrate", result,
                      <<<<"Integration error", result.err>>>>, input, "return")

\* match simplified.integrate("x")
DriverIntegrate ==
    /\ pc = "integrate"
    /\ LET result == integrate(hist[2].val, "x")
       IN  IF result.ok
           THEN Stage("integrate", result, <<>>, input, "simplify integral")
           ELSE Stage("integrate", result,
                      <<<<"Integration error", result.err>>>>, input, "for")

\* println!("Integral: {}", integral.simplify())
DriverSimplifyIntegral ==
    /\ pc = "simplify integral"
    /\ LET integral == simplify(hist[5].val)
       IN  Stage("simplify", Ok(integral), <<<<"Integral", integral>>>>,
                 input, "for")

NextDriver ==
    \/ DriverFor
    \/ DriverParse
    \/ DriverSimplify
    \/ DriverDifferentiate
    \/ DriverSimplifyDerivative
    \/ DriverIntegrate
    \/ DriverSimplifyIntegral

SpecDriver == InitDriver /\ [][NextDriver]_vars

\* The rule table and the integrate that consults it. ops holds lookup steps
\* with what lookup returned; hist holds the value the next step applies to.
InitTable ==
    /\ expr \in TableInputs
    /\ var \in VarNames
    /\ table = initialize_rules
    /\ ops = <<>>
    /\ hist = <<Ok(expr)>>
    /\ NoParser /\ NoState /\ NoDriver

\* INTEGRATION_TABLE.lookup(expr, var): takes &self, and the value stays.
TableLookup ==
    /\ Len(ops) < MaxOps
    /\ cur.ok
    /\ ops' = Append(ops, <<"lookup", lookup(table, cur.val, var)>>)
    /\ hist' = Append(hist, cur)
    /\ UNCHANGED <<expr, var, text, input, state, table, tests, idx, pc, out>>

\* expr.integrate(var) of calculus/integrate.rs
TableIntegrate ==
    /\ Len(ops) < MaxOps
    /\ cur.ok
    /\ ops' = Append(ops, <<"integrate">>)
    /\ hist' = Append(hist, integrateWithTable(table, cur.val, var))
    /\ UNCHANGED <<expr, var, text, input, state, table, tests, idx, pc, out>>

NextTable == TableLookup \/ TableIntegrate

SpecTable == InitTable /\ [][NextTable]_vars

\* An IntegrationState and the calls made on it. ops holds each call with its
\* argument; hist holds what the call returned and the state it left.
InitState ==
    /\ state \in {new(max_depth) : max_depth \in 0 .. MaxDepth}
    /\ ops = <<>>
    /\ hist = <<>>
    /\ expr = <<>> /\ var = "x"
    /\ NoParser /\ NoTable /\ NoDriver

\* A call on the state: what it was called with, returned and left.
Call(name, argument, ret, after) ==
    /\ Len(ops) < MaxOps
    /\ ops' = Append(ops, <<name, argument>>)
    /\ hist' = Append(hist, [ret |-> ret, state |-> after])
    /\ state' = after
    /\ UNCHANGED <<expr, var, text, input, table, tests, idx, pc, out>>

PushExpression ==
    \E e \in StateExprs :
        Call("push_expression", e, "()", push_expression(state, e))

PopExpression == Call("pop_expression", "()", "()", pop_expression(state))

\* should_prune takes &self: the state stays as it is.
ShouldPrune ==
    \E e \in StateExprs :
        Call("should_prune", e, should_prune(state, e), state)

SetMethod == Call("set_method", "ByParts", "()", set_method(state, "ByParts"))

GetMethod == Call("get_method", "()", get_method(state), state)

\* Expression::integrate has no IntegrationState parameter and no global one.
StateIntegrate ==
    \E e \in StateIntegrands :
        Call("integrate", e, integrate(e, "x"), state)

NextState ==
    \/ PushExpression
    \/ PopExpression
    \/ ShouldPrune
    \/ SetMethod
    \/ GetMethod
    \/ StateIntegrate

SpecState == InitState /\ [][NextState]_vars

\* A client of IntegrationState that pushes an expression only right after
\* should_prune returned false for it.
CheckedCall(name, argument, ret, after) ==
    /\ Len(ops) < MaxCalls
    /\ ops' = Append(ops, <<name, argument>>)
    /\ hist' = Append(hist, [ret |-> ret, state |-> after])
    /\ state' = after
    /\ UNCHANGED <<expr, var, text, input, table, tests, idx, pc, out>>

CheckPrune ==
    \E e \in StateExprs :
        CheckedCall("should_prune", e, should_prune(state, e), state)

\* push_expression(e), the call before it being should_prune(e) == false
PushChecked ==
    /\ ops # <<>>
    /\ ops[Len(ops)][1] = "should_prune"
    /\ hist[Len(hist)].ret = FALSE
    /\ CheckedCall("push_expression", ops[Len(ops)][2], "()",
                   push_expression(state, ops[Len(ops)][2]))

PopChecked == CheckedCall("pop_expression", "()", "()", pop_expression(state))

NextChecked == CheckPrune \/ PushChecked \/ PopChecked

SpecChecked == InitState /\ [][NextChecked]_vars

\* --------------------------------------------------------------- claims

\* The positions k at which operation op was applied: hist[k] went in and
\* hist[k+1] came out.
Applied(op) == {k \in 1 .. Len(ops) : ops[k] = op}

ArithmeticTags == {"Add", "Subtract", "Multiply", "Divide", "Power"}

\* A node of an arithmetic variant whose two operands are Constant leaves.
IsUnfolded(n) == n[1] \in ArithmeticTags /\ IsConstant(n[2]) /\ IsConstant(n[3])

C9_NoRootAfterSimplify ==
    \A k \in Applied("simplify") :
        \A n \in Nodes(hist[k + 1].val) : Tag(n) # "Root"

\* C9 witness: an input with a Root below its top node has been simplified.
C9_Witness ==
    /\ Len(ops) = 1
    /\ Tag(expr) # "Root"
    /\ \E n \in Nodes(expr) : Tag(n) = "Root"

\* C10 as stated: after simplify no arithmetic node has two Constant operands.
C10_AllConstantsFolded ==
    \A k \in Applied("simplify") :
        \A n \in Nodes(hist[k + 1].val) : ~IsUnfolded(n)

\* C10 amended: after simplify the only arithmetic nodes with two Constant
\* operands are divisions by Constant 0, which simplify does not fold.
C10_FoldedExceptDivisionByZero ==
    \A k \in Applied("simplify") :
        \A n \in Nodes(hist[k + 1].val) :
            IsUnfolded(n) => (Tag(n) = "Divide" /\ FEq(n[3][2], Zero))

\* C10 witness: simplify folded a constant operation below the top node and
\* left a division by Constant 0 in the result.
C10_Witness ==
    /\ Len(ops) = 1
    /\ \E n \in Nodes(expr) : IsUnfolded(n) /\ Tag(n) = "Power"
    /\ \E n \in Nodes(hist[2].val) : IsUnfolded(n) /\ Tag(n) = "Divide"
    /\ \A n \in Nodes(hist[2].val) : IsUnfolded(n) => Tag(n) = "Divide"


\* ------------------------------------------------- numerical evaluation

\* The value of f(a) when a is the sample point at, as (1) * f(at).
Atom(f, a, at) == IF a = at /\ a[3] # "?" THEN <<1, 1, f>> ELSE Untracked(1)

SinVal(a, at) ==
    IF IsNaN(a) \/ IsInf(a) THEN NaN
    ELSE IF IsZero(a) THEN Zero
    ELSE Atom("sin", a, at)

CosVal(a, at) ==
    IF IsNaN(a) \/ IsInf(a) THEN NaN
    ELSE IF IsZero(a) THEN One
    ELSE Atom("cos", a, at)

ExpVal(a, at) ==
    IF IsNaN(a) THEN NaN
    ELSE IF a = PInf THEN PInf
    ELSE IF a = NInf THEN Zero
    ELSE IF IsZero(a) THEN One
    ELSE IF a = One THEN E
    ELSE Atom("exp", a, at)

LnVal(a) ==
    IF IsNaN(a) THEN NaN
    ELSE IF a = PInf THEN PInf
    ELSE IF IsZero(a) THEN NInf
    ELSE IF a[1] < 0 THEN NaN
    ELSE IF a = One THEN Zero
    ELSE IF a = E THEN One
    ELSE Untracked(1)

\* The other functions are not tracked beyond NaN.
OtherVal(a) == IF IsNaN(a) THEN NaN ELSE Untracked(1)

\* The f64 value of e where the variables have the values env, and v is the
\* variable whose value the atoms sin, cos and exp are taken at.
RECURSIVE Eval(_, _, _)
Eval(e, env, v) ==
    LET a == IF Tag(e) \in LeafTags THEN Zero ELSE Eval(e[2], env, v)
        b == IF Tag(e) \in BinaryTags THEN Eval(e[3], env, v) ELSE Zero
    IN  CASE Tag(e) = "Constant" -> e[2]
          [] Tag(e) = "Variable" -> env[e[2]]
          [] Tag(e) = "Add" -> FAdd(a, b)
          [] Tag(e) = "Subtract" -> FSub(a, b)
          [] Tag(e) = "Multiply" -> FMul(a, b)
          [] Tag(e) = "Divide" -> FDiv(a, b)
          [] Tag(e) = "Power" -> FPow(a, b)
          [] Tag(e) = "Root" -> FPow(a, FDiv(One, b))
          [] Tag(e) = "Log" -> FDiv(LnVal(b), LnVal(a))
          [] Tag(e) = "Sin" -> SinVal(a, env[v])
          [] Tag(e) = "Cos" -> CosVal(a, env[v])
          [] Tag(e) = "Exp" -> ExpVal(a, env[v])
          [] Tag(e) = "Ln" -> LnVal(a)
          [] OTHER -> OtherVal(a)

\* Two evaluations gave the same tracked number.
SameValue(a, b) == FEq(a, b) /\ a[3] # "?"

SamplePoints == {FInt(-2), FInt(-1), Zero, Mk(1, 2, "1"), FInt(2)}

\* ------------------------------------------------ claims about calculus

\* e is built by Multiply from the factors v and exp(v) alone.
RECURSIVE IsFactorChain(_, _)
IsFactorChain(e, v) ==
    \/ e = variable(v)
    \/ e = exp(variable(v))
    \/ Tag(e) = "Multiply" /\ IsFactorChain(e[2], v) /\ IsFactorChain(e[3], v)

\* A product of v and exp(v), repeated or not, with both factors present.
IsRepeatedProduct(e, v) ==
    /\ Tag(e) = "Multiply" /\ IsFactorChain(e, v)
    /\ variable(v) \in Nodes(e) /\ exp(variable(v)) \in Nodes(e)

C3_DifferentiateTotal ==
    \A k \in Applied("differentiate") :
        hist[k + 1].ok /\ IsExpression(hist[k + 1].val)

\* C3 witness: a power with an exponent that is no Constant has been
\* differentiated with respect to a variable it does not mention.
C3_Witness ==
    \E k \in Applied("differentiate") :
        /\ Tag(hist[k].val) = "Power" /\ ~IsConstant(hist[k].val[3])
        /\ variable(var) \notin Nodes(hist[k].val)
        /\ IsExpression(hist[k + 1].val)

\* C8: the derivative of Constant(c) is Constant(0); the derivative of
\* Variable(n) with respect to v is Constant(1) when n = v, else Constant(0).
C8_LeafDerivatives ==
    \A k \in Applied("differentiate") :
        LET e == hist[k].val
        IN  /\ IsConstant(e) => hist[k + 1] = Ok(constant(Zero))
            /\ (IsVariable(e) /\ e[2] = var) => hist[k + 1] = Ok(constant(One))
            /\ (IsVariable(e) /\ e[2] # var) => hist[k + 1] = Ok(constant(Zero))

\* C8 witness: a variable other than the one differentiated by has been
\* differentiated.
C8_Witness ==
    \E k \in Applied("differentiate") :
        /\ IsVariable(hist[k].val) /\ hist[k].val[2] # var
        /\ hist[k + 1] = Ok(constant(Zero))

\* The failure names of the taxonomy the specification describes.
Taxonomy ==
    {"MaxDepthExceeded", "NoMethodFound", "NotImplemented", "InvalidInput",
     "UnsupportedOperation"}

\* The variants integrate has no success case for.
UnhandledTags == {"Arcsin", "Arccos", "Arctan", "Log"}

NotImplementedMessages ==
    {"Integration of arcsin not implemented",
     "Integration of arccos not implemented",
     "Integration of arctan not implemented",
     "Integration of logarithm with arbitrary base not implemented"}

\* Every message integrate wraps in an IntegrationError.
IntegrationMessages ==
    NotImplementedMessages \cup
    {"Cannot integrate this product",
     "Integration of general products not implemented",
     "Integration of general powers not implemented",
     "Cannot integrate this division",
     "Cannot integrate sin of complex expression",
     "Cannot integrate cos of complex expression",
     "Cannot integrate tan of complex expression",
     "Cannot integrate exp of complex expression",
     "Cannot integrate ln of complex expression",
     "Cannot integrate sinh of complex expression",
     "Cannot integrate cosh of complex expression",
     "Cannot integrate tanh of complex expression"}

C6_Termwise ==
    \A k \in Applied("integrate") :
        LET e == hist[k].val
            l == integrate(e[2], var)
            r == integrate(e[3], var)
        IN  Tag(e) \in {"Add", "Subtract"} =>
                /\ hist[k + 1].ok <=> (l.ok /\ r.ok)
                /\ (l.ok /\ r.ok) => hist[k + 1].val = <<Tag(e), l.val, r.val>>
                /\ ~l.ok => hist[k + 1] = l
                /\ (l.ok /\ ~r.ok) => hist[k + 1] = r

\* C6 witness: both sides of a Subtract fail, with different errors, and the
\* result is the error of the left side.
C6_Witness ==
    \E k \in Applied("integrate") :
        LET e == hist[k].val
        IN  /\ Tag(e) = "Subtract"
            /\ ~integrate(e[2], var).ok /\ ~integrate(e[3], var).ok
            /\ integrate(e[2], var) # integrate(e[3], var)
            /\ hist[k + 1] = integrate(e[2], var)

\* e is Power(Variable v, Constant n) for some n.
IsPowerOf(e, v) == Tag(e) = "Power" /\ e[2] = variable(v) /\ IsConstant(e[3])

\* Divide(Power(Variable v, Constant n+1), Constant n+1)
PowerRule(v, n) ==
    divide(power(variable(v), constant(FAdd(n, One))), constant(FAdd(n, One)))

NoDivisionByZero(e) ==
    \A s \in Nodes(e) : Tag(s) = "Divide" => ~IsConstEq(s[3], Zero)

\* The exponents of the model within 1e-10 of -1.
WithinTolerance == {FInt(-1), FNeg(Near)}

IsNumber(e) == IsConstant(e) /\ IsFinite(e[2]) /\ e[2][3] # "?"

\* The primitives of the round trip, in the integration variable v.
IsPrimitive(e, v) ==
    \/ IsNumber(e)
    \/ IsVariable(e)
    \/ /\ Tag(e) \in {"Add", "Subtract"}
       /\ \A t \in {e[2], e[3]} : IsVariable(t) \/ IsNumber(t)
    \/ IsPowerOf(e, v) /\ IsInteger(e[3][2]) /\ e[3][2] # FInt(-1)
    \/ e \in {sin(variable(v)), cos(variable(v)), exp(variable(v))}

\* integrate, differentiate and simplify were applied in a row from step k.
IsRoundTrip(k) ==
    /\ k + 2 <= Len(ops)
    /\ ops[k] = "integrate" /\ ops[k + 1] = "differentiate"
    /\ ops[k + 2] = "simplify"

\* C4: for every primitive e, integrate(e, x) succeeds and
\* simplify(differentiate(integrate(e, x), x)) has the same value as
\* simplify(e) at every sample point for x (and for the other variable).
C4_RoundTrip ==
    \A k \in Applied("integrate") :
        IsPrimitive(hist[k].val, var) =>
            /\ hist[k + 1].ok
            /\ IsRoundTrip(k) =>
                   \A env \in [VarNames -> SamplePoints] :
                       SameValue(Eval(hist[k + 3].val, env, var),
                                 Eval(simplify(hist[k].val), env, var))

\* C4 witness: the round trip of x^(-2) is complete, and its result is
\* another tree than x^(-2).
C4_Witness ==
    /\ ops = <<"integrate", "differentiate", "simplify">>
    /\ IsPowerOf(expr, var) /\ expr[3][2] = FInt(-2)
    /\ hist[4].val # simplify(expr)

\* ------------------------------------------------- claims C11 to C20

\* C11: simplify returns an Expression for every expression, the Root case
\* that rebuilds and simplifies a Power and the Exp(Ln(..)) and Ln(Exp(..))
\* cases that simplify the inner expression again included.
C11_SimplifyTotal ==
    \A k \in Applied("simplify") :
        hist[k + 1].ok /\ IsExpression(hist[k + 1].val)

\* C11 witness: an Exp(Ln(..)) whose inner expression holds a Root has been
\* simplified to another expression.
C11_Witness ==
    /\ ops = <<"simplify">>
    /\ Tag(expr) = "Exp" /\ Tag(expr[2]) = "Ln" /\ Tag(expr[2][2]) = "Root"
    /\ IsExpression(hist[2].val) /\ hist[2].val # expr

\* The one-character primaries of the strings below, and what they parse to.
AtomChars == {"x", "2"}

AtomValue(c) == IF c = "x" THEN variable("x") ELSE constant(FInt(2))

\* C15: the identifier e parses as the constant e unless a ^ follows it
\* immediately, and then e^P parses as Exp(P) with P a single primary; every
\* other chain a^b^c takes a single primary for each right side and parses
\* as Power(Power(a, b), c).
C15_EulerAndPowerChains ==
    Len(ops) >= 1 =>
        /\ text = <<"e">> => hist[1] = Ok(constant(E))
        /\ \A a \in AtomChars :
            /\ text = <<"e", "^", a>> => hist[1] = Ok(exp(AtomValue(a)))
            /\ text = <<"e", "^", "(", a, ")">> =>
                    hist[1] = Ok(exp(AtomValue(a)))
            /\ text = <<"e", " ", "^", a>> =>
                    hist[1] = Ok(power(constant(E), AtomValue(a)))
            /\ text = <<a, "^", "e">> =>
                    hist[1] = Ok(power(AtomValue(a), constant(E)))
        /\ \A a, b \in AtomChars :
            /\ text = <<"e", "^", a, "^", b>> =>
                    hist[1] = Ok(power(exp(AtomValue(a)), AtomValue(b)))
            /\ text = <<a, "^", "e", "^", b>> =>
                    hist[1] = Ok(power(AtomValue(a), exp(AtomValue(b))))
        /\ \A a, b, c \in AtomChars :
            text = <<a, "^", b, "^", c>> =>
                hist[1] = Ok(power(power(AtomValue(a), AtomValue(b)),
                                   AtomValue(c)))

\* C15 witness: x^2^x has been parsed, to the end of the string.
C15_Witness ==
    /\ text = <<"x", "^", "2", "^", "x">>
    /\ ops = <<"parse">>
    /\ hist[1].ok /\ Tag(hist[1].val) = "Power"
    /\ input = <<>>

\* The string "x^2 + 2*x + 1".
QuadraticText ==
    <<"x", "^", "2", " ", "+", " ", "2", "*", "x", " ", "+", " ", "1">>

\* C12: "x^2 + 2*x + 1" parses to Add(Add(Power(x, 2), Multiply(2, x)), 1);
\* simplify returns that tree, and the simplified derivative of it is
\* Add(Multiply(Constant 2, Variable x), Constant 2).
C12_QuadraticScenario ==
    text = QuadraticText =>
        /\ Len(hist) >= 1 =>
              hist[1] = Ok(add(add(power(variable("x"), constant(FInt(2))),
                                   multiply(constant(FInt(2)), variable("x"))),
                               constant(One)))
        /\ Len(hist) >= 2 => hist[2] = hist[1]
        /\ Len(hist) >= 4 =>
              hist[4] = Ok(add(multiply(constant(FInt(2)), variable("x")),
                               constant(FInt(2))))

\* C12 witness: the derivative of "x^2 + 2*x + 1" has been printed.
C12_Witness ==
    /\ text = QuadraticText
    /\ Len(hist) = 4
    /\ hist[3] # hist[4]
    /\ out[Len(out)] = <<"Derivative", hist[4].val>>

\* The stages of test_expression, in order.
StageOrder ==
    <<"parse", "simplify", "differentiate", "simplify", "integrate", "simplify">>

IsTestingLine(line) == line[1] = "Testing expression"

\* The lines "Testing expression" printed so far.
TestingLines == SelectSeq(out, IsTestingLine)

\* C14: the stages of each string run in the order parse, simplify,
\* differentiate, simplify, integrate, simplify; after a parse failure only the
\* parse error is printed and no later stage runs; an integration failure is
\* printed after the derivative, and neither failure keeps main from taking
\* the strings that follow.
C14_DriverOrdering ==
    /\ Len(ops) <= Len(StageOrder)
    /\ \A k \in 1 .. Len(ops) : ops[k] = StageOrder[k]
    /\ (Len(hist) >= 1 /\ ~hist[1].ok) =>
            /\ ops = <<"parse">>
            /\ pc \in {"for", "return"}
            /\ out[Len(out)] = <<"Parse error", hist[1].err>>
            /\ out[Len(out) - 1] = <<"Testing expression", text>>
    /\ (Len(hist) >= 5 /\ ~hist[5].ok) =>
            /\ Len(ops) = 5
            /\ pc \in {"for", "return"}
            /\ out[Len(out)] = <<"Integration error", hist[5].err>>
            /\ out[Len(out) - 1] = <<"Derivative", hist[4].val>>
    /\ Len(TestingLines) = idx
    /\ \A k \in 1 .. idx : TestingLines[k][2] = tests[k]
    /\ pc = "return" => idx = Len(tests)

\* C14 witness: main has returned after an integration error on its first
\* string and a parse error on its second.
C14_Witness ==
    /\ pc = "return"
    /\ \E i \in 1 .. Len(out) : out[i][1] = "Integration error"
    /\ out[Len(out)][1] = "Parse error"


\* ----------------------------------------- claims: products and powers

\* The difficulty score of a variant in the by-parts strategy the
\* specification describes.
DifficultyScore(e) ==
    CASE Tag(e) = "Constant" -> 1
      [] Tag(e) = "Variable" -> 2
      [] Tag(e) \in {"Add", "Subtract"} -> 3
      [] Tag(e) \in {"Multiply", "Sin", "Cos", "Exp"} -> 4
      [] Tag(e) \in {"Divide", "Tan"} -> 5
      [] Tag(e) = "Power" -> 6
      [] Tag(e) = "Ln" -> 7
      [] OTHER -> 10

\* u dv - the integral of v du, given u, dv and the two integrals; a failure
\* of either integral is the result.
ByPartsOf(u, v_int, inner_int) ==
    IF ~v_int.ok THEN v_int
    ELSE IF ~inner_int.ok THEN inner_int
    ELSE Ok(subtract(multiply(u, v_int.val), inner_int.val))

\* The integral of v du, given v = integrate(dv).
InnerIntegral(u, v_int, v) ==
    IF v_int.ok THEN integrate(multiply(v_int.val, differentiate(u, v)), v)
    ELSE v_int

\* By-parts with u and dv chosen.
ByPartsWith(u, dv, v) ==
    ByPartsOf(u, integrate(dv, v), InnerIntegral(u, integrate(dv, v), v))

\* By-parts on Multiply(left, right): u is the factor with the lower score.
ByParts(left, right, v) ==
    IF DifficultyScore(right) < DifficultyScore(left)
    THEN ByPartsWith(right, left, v)
    ELSE ByPartsWith(left, right, v)

\* A product integrate has no direct case for: no Constant factor, and not
\* the square of the integration variable.
NotDirect(e, v) ==
    /\ Tag(e) = "Multiply"
    /\ ~IsConstant(e[2]) /\ ~IsConstant(e[3])
    /\ ~(e[2] = variable(v) /\ e[3] = variable(v))

Before(k) == IF k = 1 THEN new(state.max_depth) ELSE hist[k - 1].state

\* The k-th call is a call of the named method.
IsCall(k, name) == k \in 1 .. Len(ops) /\ ops[k][1] = name

\* expr is similar to an expression on the visited stack of self.
SimilarToVisited(self, e) ==
    \E i \in 1 .. Len(self.visited_expressions) :
        is_similar(self.visited_expressions[i], e)

RECURSIVE SimilarAnyUnary(_, _)
SimilarAnyUnary(expr1, expr2) ==
    IF ExprEq(expr1, expr2) THEN TRUE
    ELSE IF Tag(expr1) # Tag(expr2) THEN FALSE
    ELSE IF Tag(expr1) \in {"Multiply", "Add"}
         THEN \/ SimilarAnyUnary(expr1[2], expr2[2])
                 /\ SimilarAnyUnary(expr1[3], expr2[3])
              \/ SimilarAnyUnary(expr1[2], expr2[3])
                 /\ SimilarAnyUnary(expr1[3], expr2[2])
    ELSE IF Tag(expr1) = "Subtract"
         THEN SimilarAnyUnary(expr1[2], expr2[2])
              /\ SimilarAnyUnary(expr1[3], expr2[3])
    ELSE IF Tag(expr1) \in UnaryTags
         THEN SimilarAnyUnary(expr1[2], expr2[2])
    ELSE FALSE

\* C17: two expressions are similar if they are equal, if both are Add or both
\* Multiply with similar children in either order, or if both are Subtract or
\* both the same unary function, any of the eleven, with similar children in
\* the same order; every other pair is not similar. Stated of each expression
\* should_prune is asked about and each expression on the stack at that call.
C17_SimilarityAsStated ==
    \A k \in 1 .. Len(ops) :
        IsCall(k, "should_prune") =>
            \A i \in 1 .. Len(Before(k).visited_expressions) :
                is_similar(Before(k).visited_expressions[i], ops[k][2])
                    = SimilarAnyUnary(Before(k).visited_expressions[i], ops[k][2])

C13_TableInert ==
    /\ table = initialize_rules
    /\ \A k \in 1 .. Len(ops) :
           /\ ops[k][1] = "lookup" => ops[k][2] = None
           /\ ops[k][1] = "integrate" =>
                  hist[k + 1] = integrate(hist[k].val, var)
    /\ \A i \in 1 .. Len(table) :
           lookup(table, table[i].pattern, var) = None

\* The pattern of the first rule, x^n, looked up and then integrated: the
\* rule's result would be x^(n+1)/(n+1), and integrate fails instead.
C13_Witness ==
    /\ expr = initialize_rules[1].pattern
    /\ Len(ops) = 2
    /\ ops[1][1] = "lookup"
    /\ ops[2][1] = "integrate"
    /\ hist[3] = Err("Integration of general powers not implemented")


\* --------------------------------------------------------- claims: roots

\* C21: the derivative of Root(base, n) is the derivative of
\* Power(base, Divide(Constant 1, n)), and that is always the form
\* Multiply(Divide(Constant 1, n), Multiply(Ln(base), d base)), never the
\* power rule of a Constant exponent, also when n is a Constant.
C21_RootDerivative ==
    \A k \in Applied("differentiate") :
        LET e == hist[k].val
        IN  Tag(e) = "Root" =>
                /\ hist[k + 1]
                       = Ok(differentiate(
                                power(e[2], divide(constant(One), e[3])), var))
                /\ hist[k + 1]
                       = Ok(multiply(divide(constant(One), e[3]),
                                multiply(ln(e[2]), differentiate(e[2], var))))

\* C21 witness: the square root of x has been differentiated by x.
C21_Witness ==
    \E k \in Applied("differentiate") :
        /\ var = "x"
        /\ hist[k].val = root(variable("x"), constant(FInt(2)))
        /\ hist[k + 1]
               = Ok(multiply(divide(constant(One), constant(FInt(2))),
                        multiply(ln(variable("x")), constant(One))))

\* C27: the integral of Root(base, n) fails for every base, n and variable,
\* with the error of the Power arm, "Integration of general powers not
\* implemented": the exponent Divide(Constant 1, n) is never a Constant.
C27_RootIntegralFails ==
    \A k \in Applied("integrate") :
        Tag(hist[k].val) = "Root" =>
            hist[k + 1] = Err("Integration of general powers not implemented")

\* C27 witness: the square root of x has been integrated by x and failed,
\* where the power rule on x^(1/2) would have applied.
C27_Witness ==
    \E k \in Applied("integrate") :
        /\ var = "x"
        /\ hist[k].val = root(variable("x"), constant(FInt(2)))
        /\ ~hist[k + 1].ok
        /\ integrate(power(variable("x"), constant(Mk(1, 2, "1"))), "x").ok


\* ------------------------------------------------ claims: identity rules

\* The identity rules on the simplified operands l and r of a node of the
\* variant tag, with result the simplified node.
IdentityRules(tag, l, r, result) ==
    /\ (tag = "Add" /\ IsConstEq(l, Zero)) => result = r
    /\ (tag = "Add" /\ IsConstEq(r, Zero)) => result = l
    /\ (tag = "Subtract" /\ IsConstEq(r, Zero)) => result = l
    /\ (tag = "Multiply" /\ (IsConstEq(l, Zero) \/ IsConstEq(r, Zero))) =>
           result = constant(Zero)
    /\ (tag = "Multiply" /\ IsConstEq(l, One)) => result = r
    /\ (tag = "Multiply" /\ IsConstEq(r, One)) => result = l
    /\ (tag = "Divide" /\ IsConstEq(l, Zero)) => result = constant(Zero)
    /\ (tag = "Divide" /\ IsConstEq(r, One)) => result = l
    /\ (tag = "Power" /\ IsConstEq(r, Zero)) => result = constant(One)
    /\ (tag = "Power" /\ IsConstEq(r, One)) => result = l

\* A node an identity rule applies to.
IsIdentityRedex(n) ==
    \/ Tag(n) = "Add" /\ (IsConstEq(n[2], Zero) \/ IsConstEq(n[3], Zero))
    \/ Tag(n) = "Multiply"
       /\ \E i \in {2, 3} : IsConstEq(n[i], Zero) \/ IsConstEq(n[i], One)
    \/ Tag(n) = "Power" /\ (IsConstEq(n[3], Zero) \/ IsConstEq(n[3], One))

\* C22: simplify applies the identity rules to the simplified operands:
\* x+0 and 0+x give x, x-0 gives x, x*1 and 1*x give x, x*0 and 0*x give
\* Constant 0, 0/x gives Constant 0, x/1 gives x, x^0 gives Constant 1 and
\* x^1 gives x; and no node of the result is an Add with a Constant 0
\* operand, a Multiply with a Constant 0 or Constant 1 operand, or a Power
\* with exponent Constant 0 or Constant 1.
C22_IdentityRules ==
    \A k \in Applied("simplify") :
        /\ hist[k].val[1] \in ArithmeticTags =>
               IdentityRules(hist[k].val[1], simplify(hist[k].val[2]),
                             simplify(hist[k].val[3]), hist[k + 1].val)
        /\ \A n \in Nodes(hist[k + 1].val) : ~IsIdentityRedex(n)

\* C22 witness: a sum whose right operand is no Constant and simplifies to
\* Constant 0 has been simplified to its simplified left operand, which is
\* no Constant.
C22_Witness ==
    /\ ops = <<"simplify">>
    /\ Tag(expr) = "Add" /\ ~IsConstant(expr[3])
    /\ simplify(expr[3]) = constant(Zero)
    /\ hist[2].val = simplify(expr[2]) /\ ~IsConstant(hist[2].val)

\* C23: when the variable does not occur in an expression, the simplified
\* derivative of the expression by that variable is Constant 0.
C23_ConstantInVariable ==
    \A k \in Applied("differentiate") :
        (variable(var) \notin Nodes(hist[k].val)
         /\ k < Len(ops) /\ ops[k + 1] = "simplify") =>
            hist[k + 2] = Ok(constant(Zero))

\* C23 witness: a power of y with exponent y, and so with the general case of
\* the Power arm, has been differentiated by x and the derivative simplified
\* to Constant 0.
C23_Witness ==
    /\ Len(ops) = 2 /\ ops[1] = "differentiate" /\ ops[2] = "simplify"
    /\ var = "x"
    /\ expr = power(variable("y"), variable("y"))
    /\ hist[2].val # constant(Zero)
    /\ hist[3] = Ok(constant(Zero))


\* ------------------------------------- claims: invariants of the state

\* C24: after any calls of push_expression and pop_expression on a state made
\* by new, depth is the length of visited_expressions; pop_expression on an
\* empty state leaves depth 0 and the stack empty; and max_depth keeps the
\* value new was given.
C24_DepthIsStackLength ==
    /\ [](state.depth = Len(state.visited_expressions))
    /\ [][/\ state'.max_depth = state.max_depth
          /\ (/\ state.visited_expressions = <<>>
              /\ ops' = Append(ops, <<"pop_expression", "()">>)) =>
                 (state'.depth = 0 /\ state'.visited_expressions = <<>>)]_vars

\* C24 witness: pop_expression on the new state, then two pushes.
C24_Witness ==
    /\ Len(ops) = 3
    /\ IsCall(1, "pop_expression")
    /\ hist[1].state = new(state.max_depth)
    /\ IsCall(2, "push_expression") /\ IsCall(3, "push_expression")
    /\ state.depth = 2 /\ Len(state.visited_expressions) = 2

\* C25: when every push_expression(e) comes right after a should_prune(e)
\* that returned false, depth never exceeds max_depth and no two expressions
\* on the visited stack are similar to each other.
C25_CheckedPushes ==
    /\ state.depth <= state.max_depth
    /\ \A i, j \in 1 .. Len(state.visited_expressions) :
           i # j => ~is_similar(state.visited_expressions[i],
                                state.visited_expressions[j])

\* C25 witness: a stack filled to max_depth by two checked pushes, after a
\* should_prune that kept the second expression from being one similar to
\* the first would have returned true.
C25_Witness ==
    /\ Len(ops) = 4
    /\ IsCall(2, "push_expression") /\ IsCall(4, "push_expression")
    /\ state.depth = 2 /\ state.max_depth = 2
    /\ state.visited_expressions[1] = multiply(variable("x"), exp(variable("x")))
    /\ should_prune(hist[2].state, multiply(exp(variable("x")), variable("x")))

\* C29: is_similar is reflexive and symmetric, and structurally equal
\* expressions are similar. Stated of each expression should_prune is asked
\* about and each expression on the stack at that call.
C29_ReflexiveSymmetric ==
    \A k \in 1 .. Len(ops) :
        IsCall(k, "should_prune") =>
            /\ is_similar(ops[k][2], ops[k][2])
            /\ \A i \in 1 .. Len(Before(k).visited_expressions) :
                   /\ is_similar(Before(k).visited_expressions[i], ops[k][2])
                          = is_similar(ops[k][2], Before(k).visited_expressions[i])
                   /\ Before(k).visited_expressions[i] = ops[k][2] =>
                          is_similar(Before(k).visited_expressions[i], ops[k][2])


\* ------------------------------------- claims: the two integrate functions

C28_ConstantMultiple ==
    \A k \in Applied("integrate") :
        LET e == hist[k].val
        IN  Tag(e) = "Multiply" =>
                /\ IsConstant(e[2]) =>
                       hist[k + 1]
                           = IF integrate(e[3], var).ok
                             THEN Ok(multiply(constant(e[2][2]),
                                              integrate(e[3], var).val))
                             ELSE integrate(e[3], var)
                /\ (~IsConstant(e[2]) /\ IsConstant(e[3])) =>
                       hist[k + 1]
                           = IF integrate(e[2], var).ok
                             THEN Ok(multiply(constant(e[3][2]),
                                              integrate(e[2], var).val))
                             ELSE integrate(e[2], var)
                /\ (~IsConstant(e[2]) /\ ~IsConstant(e[3])) =>
                       /\ hist[k + 1].ok
                              = (e[2] = variable(var) /\ e[3] = variable(var))
                       /\ hist[k + 1].ok =>
                              hist[k + 1].val
                                  = divide(power(variable(var), constant(FInt(3))),
                                           constant(FInt(3)))

\* C28 witness: 2 * arcsin(x) has been integrated and failed with the error
\* of arcsin, and y * y integrated by x fails.
C28_Witness ==
    \E k \in Applied("integrate") :
        /\ var = "x"
        /\ hist[k].val = multiply(constant(FInt(2)), arcsin(variable("x")))
        /\ hist[k + 1] = Err("Integration of arcsin not implemented")
        /\ ~integrate(multiply(variable("y"), variable("y")), "x").ok


\* ------------------------------------------------- claims: trailing input

\* C30: parse returns an expression only when it has consumed the whole
\* input; a character left over after a complete expression makes it return
\* an error. Stated of the first parse on a parser made from a string.
C30_WholeInputConsumed ==
    (Len(ops) = 1 /\ hist[1].ok) => input = <<>>

====
